---- MODULE Spec2Model ----
(***************************************************************************)
(* A model of linesample: one call of sample_lines, in either of the two   *)
(* implementations the package ships (linesample/linesample.py and         *)
(* linesample/__init__.py), followed by the single pass over the input.    *)
(*                                                                         *)
(* Numbers: a float x is represented by the integer x * Den, so that       *)
(* random.random() returns one of 0/Den .. (Den-1)/Den.  An argument value *)
(* keeps its Python type ("float" or "int") because __init__.py dispatches *)
(* on type(param).  A line keeps its arrival index next to its text.       *)
(***************************************************************************)
EXTENDS Integers, Sequences, FiniteSets, TLC

\* ---------------------------------------------------------------- bounds
MaxLines == 4
MaxNumber == 3
MaxSeed == 2
Den == 6

\* ------------------------------------------------------- values and text
None == <<>>
Some(v) == <<v>>

FloatV(n) == [ty |-> "float", v |-> n]
IntV(n) == [ty |-> "int", v |-> n]
Scaled(p) == IF p.ty = "int" THEN p.v * Den ELSE p.v

Half == Den \div 2

Whitespace == {" ", "\t", "\n"}

Texts == { <<"a", "\n">>, <<" ", "a", " ", "b", "\n">>, <<"\t", "b", " ", "\n">> }

RECURSIVE LStrip(_)
LStrip(s) == IF s # <<>> /\ Head(s) \in Whitespace THEN LStrip(Tail(s)) ELSE s

RECURSIVE RStrip(_)
RStrip(s) ==
  IF s # <<>> /\ s[Len(s)] \in Whitespace THEN RStrip(SubSeq(s, 1, Len(s) - 1)) ELSE s

LineEndings == {"\n", "\r"}

RECURSIVE RStripEol(_)
RStripEol(s) ==
  IF s # <<>> /\ s[Len(s)] \in LineEndings THEN RStripEol(SubSeq(s, 1, Len(s) - 1)) ELSE s

Strip(s) == LStrip(RStrip(s))

Printed(line) == [idx |-> line.idx, text |-> Strip(line.text)]

\* ------------------------------------------------ the pseudorandom source
SystemRng == [sys |-> TRUE, s |-> 0]
RngStates == {SystemRng} \cup {[sys |-> FALSE, s |-> x] : x \in 0 .. Den - 1}

RngSeed(a) == IF a = None THEN SystemRng ELSE [sys |-> FALSE, s |-> a[1] % Den]

random_seed_noarg(a) == SystemRng
random_seed(a) == RngSeed(a)

RngStep(s) == (s + 5) % Den

RngDraws(g) ==
  IF g.sys THEN {[value |-> d, next |-> g] : d \in 0 .. Den - 1}
  ELSE {[value |-> RngStep(g.s), next |-> [sys |-> FALSE, s |-> RngStep(g.s)]]}

\* --------------------------------------------------------------- arguments
Impls == {"linesample.py", "__init__.py"}
SeedArgs == {None} \cup {Some(s) : s \in 0 .. MaxSeed}
FractionArgs ==
  {None} \cup {Some(FloatV(x)) : x \in {-1, 0, Half, Den, Den + Half}} \cup {Some(IntV(2))}
NumberArgs == {None} \cup {Some(n) : n \in -1 .. MaxNumber}

VARIABLES impl, seed, fraction, number, pc, mode, err, param, rng, seedCalls,
          lines, lines_read, selected_lines, r, ndraws, out

vars == <<impl, seed, fraction, number, pc, mode, err, param, rng, seedCalls,
          lines, lines_read, selected_lines, r, ndraws, out>>

Init ==
  /\ impl \in Impls
  /\ seed \in SeedArgs
  /\ fraction \in FractionArgs
  /\ number \in NumberArgs
  /\ rng \in RngStates
  /\ pc = "call"
  /\ mode = "none"
  /\ err = ""
  /\ param = None
  /\ seedCalls = 0
  /\ lines = <<>>
  /\ lines_read = 0
  /\ selected_lines = <<>>
  /\ r = 0
  /\ ndraws = 0
  /\ out = <<>>

\* ------------------------------------------------------------ sample_lines
Raise(msg) ==
  /\ pc' = "error"
  /\ mode' = "none"
  /\ err' = msg
  /\ param' = None

Route(m, p) ==
  /\ pc' = "loop"
  /\ mode' = m
  /\ err' = ""
  /\ param' = Some(p)

\* linesample/linesample.py
sample_lines ==
  /\ pc = "call"
  /\ impl = "linesample.py"
  /\ IF fraction = None /\ number = None
     THEN /\ Raise("Either fraction or number must be given.")
          /\ UNCHANGED <<rng, seedCalls>>
     ELSE /\ rng' = random_seed(seed)
          /\ seedCalls' = seedCalls + 1
          /\ IF fraction # None
             THEN IF Scaled(fraction[1]) < 0 \/ Scaled(fraction[1]) > Den
                  THEN Raise("Sampling fraction must be between 0 and 1")
                  ELSE Route("fraction", fraction[1])
             ELSE IF number # None
                  THEN IF number[1] < 1
                       THEN Raise("Number of lines must be a positive integer.")
                       ELSE Route("number", IntV(number[1]))
                  ELSE Raise("Only one of fraction or number may be given.")
  /\ UNCHANGED <<impl, seed, fraction, number, lines, lines_read,
                 selected_lines, r, ndraws, out>>

\* linesample/__init__.py: linesample(infile, param)
linesample(p) ==
  IF Scaled(p) < 0
  THEN Raise("Parameter must be nonnegative.")
  ELSE IF 0 < Scaled(p) /\ Scaled(p) < Den
       THEN Route("fraction", p)
       ELSE IF p.ty = "int"
            THEN Route("number", p)
            ELSE Raise("Parameter must be an integer if greater than 1.")

\* linesample/__init__.py: sample_lines
init_sample_lines ==
  /\ pc = "call"
  /\ impl = "__init__.py"
  /\ IF fraction = None /\ number = None
     THEN /\ Raise("Either fraction or number must be given.")
          /\ UNCHANGED <<rng, seedCalls>>
     ELSE IF fraction # None /\ number # None
          THEN /\ Raise("Only one of fraction or number may be given.")
               /\ UNCHANGED <<rng, seedCalls>>
          ELSE /\ rng' = random_seed(seed)
               /\ seedCalls' = seedCalls + 1
               /\ linesample(IF fraction # None THEN fraction[1] ELSE IntV(number[1]))
  /\ UNCHANGED <<impl, seed, fraction, number, lines, lines_read,
                 selected_lines, r, ndraws, out>>

\* ------------------------------------------------------------ fraction mode
IncludesOrEqual(draw, p) == draw <= Scaled(p)
Includes(draw, p) == draw < Scaled(p)

\* One iteration of the loop: read a line, draw, print it if selected.
sample_by_fraction ==
  /\ pc = "loop"
  /\ mode = "fraction"
  /\ Len(lines) < MaxLines
  /\ \E text \in Texts, d \in RngDraws(rng) :
       LET line == [idx |-> Len(lines) + 1, text |-> text] IN
       /\ lines' = Append(lines, line)
       /\ r' = d.value
       /\ rng' = d.next
       /\ ndraws' = ndraws + 1
       /\ out' = IF Includes(d.value, param[1]) THEN Append(out, Printed(line)) ELSE out
  /\ UNCHANGED <<impl, seed, fraction, number, pc, mode, err, param, seedCalls,
                 lines_read, selected_lines>>

\* End of input: the loop, and the call, return.
sample_by_fraction_eof ==
  /\ pc = "loop"
  /\ mode = "fraction"
  /\ pc' = "done"
  /\ UNCHANGED <<impl, seed, fraction, number, mode, err, param, rng, seedCalls,
                 lines, lines_read, selected_lines, r, ndraws, out>>

\* -------------------------------------------------------------- number mode
Index(draw, n) == (draw * n) \div Den

DeleteAt(buf, i) == SubSeq(buf, 1, i) \o SubSeq(buf, i + 2, Len(buf))

ReplaceInPlace(buf, index, line) == [buf EXCEPT ![index + 1] = line]
AppendOnly(buf, index, line) == Append(buf, line)
Replace(buf, index, line) == Append(DeleteAt(buf, index), line)

Selects(index, k) == index < k - 1

\* One iteration of the loop: read a line, then fill or draw and replace.
sample_by_number ==
  /\ pc = "loop"
  /\ mode = "number"
  /\ Len(lines) < MaxLines
  /\ \E text \in Texts :
       LET line == [idx |-> Len(lines) + 1, text |-> text]
           k == param[1].v
       IN
       /\ lines' = Append(lines, line)
       /\ lines_read' = lines_read + 1
       /\ IF Len(selected_lines) < k
          THEN /\ selected_lines' = Append(selected_lines, line)
               /\ UNCHANGED <<r, rng, ndraws>>
          ELSE \E d \in RngDraws(rng) :
                 /\ r' = d.value
                 /\ rng' = d.next
                 /\ ndraws' = ndraws + 1
                 /\ selected_lines' =
                      IF Selects(Index(d.value, lines_read + 1), k)
                      THEN Replace(selected_lines, Index(d.value, lines_read + 1), line)
                      ELSE selected_lines
  /\ UNCHANGED <<impl, seed, fraction, number, pc, mode, err, param, seedCalls, out>>

\* End of input: print the buffer, front to back.
sample_by_number_eof ==
  /\ pc = "loop"
  /\ mode = "number"
  /\ pc' = "done"
  /\ out' = [i \in 1 .. Len(selected_lines) |-> Printed(selected_lines[i])]
  /\ UNCHANGED <<impl, seed, fraction, number, mode, err, param, rng, seedCalls,
                 lines, lines_read, selected_lines, r, ndraws>>

Next ==
  \/ sample_lines
  \/ init_sample_lines
  \/ sample_by_fraction
  \/ sample_by_fraction_eof
  \/ sample_by_number
  \/ sample_by_number_eof

Spec == Init /\ [][Next]_vars


\* ------------------------------------------------------------------ helpers
Min(a, b) == IF a < b THEN a ELSE b
Range(f) == {f[i] : i \in DOMAIN f}
Idx(s) == [i \in 1 .. Len(s) |-> s[i].idx]
Increasing(s) == \A i, j \in 1 .. Len(s) : i < j => s[i].idx < s[j].idx
FromInput(s) == \A i \in 1 .. Len(s) : s[i].idx \in 1 .. Len(lines) /\ lines[s[i].idx].text = s[i].text
NumberMode == mode = "number" /\ param # None
K == param[1].v

\* C1: in number mode the buffer after every processed line, and the final
\* output, hold lines of the input in strictly increasing arrival index.
C1_OrderPreserved ==
  NumberMode =>
    /\ Increasing(selected_lines)
    /\ FromInput(selected_lines)
    /\ Increasing(out)
    /\ pc = "done" => Idx(out) = Idx(selected_lines)

\* A run of size 3 over four lines in which the middle entry was evicted.
C1_Witness ==
  /\ NumberMode
  /\ pc = "done"
  /\ Idx(out) = <<1, 3, 4>>

\* C2: in number mode with k >= 1 the buffer holds min(lines_read, k) lines
\* after every line; the output has that many lines, and is the whole input
\* in order when the input is shorter than k.
C2_ReservoirSize ==
  (NumberMode /\ K >= 1) =>
    /\ lines_read = Len(lines)
    /\ Len(selected_lines) = Min(lines_read, K)
    /\ lines_read < K => selected_lines = lines
    /\ pc = "done" =>
         /\ Len(out) = Min(Len(lines), K)
         /\ Len(lines) < K => Idx(out) = [i \in 1 .. Len(lines) |-> i]

\* A finished run over more lines than k in which a line was replaced.
C2_Witness ==
  /\ NumberMode
  /\ pc = "done"
  /\ K = 2
  /\ Len(lines) = 4
  /\ Idx(out) = <<3, 4>>

\* The final buffer, as arrival indices, of a run of size k over n lines in
\* which the line with running count m draws the index js[m].
RECURSIVE RunIdx(_, _, _, _)
RunIdx(k, m, n, js) ==
  IF m = 0 THEN <<>>
  ELSE LET buf == RunIdx(k, m - 1, n, js) IN
       IF Len(buf) < k THEN Append(buf, m)
       ELSE IF Selects(js[m], k) THEN Replace(buf, js[m], m) ELSE buf

IndexSeqs(n) == {js \in [1 .. n -> 0 .. n - 1] : \A m \in 1 .. n : js[m] < m}
Ways(k, n, S) == Cardinality({js \in IndexSeqs(n) : Range(RunIdx(k, n, n, js)) = S})
KSubsets(n, k) == {S \in SUBSET (1 .. n) : Cardinality(S) = k}

\* C3: after n >= k lines every k-subset of the n lines is the final
\* reservoir for the same number of draw sequences.
C3_Uniform ==
  (NumberMode /\ pc = "done" /\ K >= 1 /\ Len(lines) >= K) =>
    \A S1, S2 \in KSubsets(Len(lines), K) : Ways(K, Len(lines), S1) = Ways(K, Len(lines), S2)

\* C10: a line arriving at a full buffer draws one index j in 0..n-1; it
\* replaces the entry at position j if j < k and is discarded otherwise.
C10_Step ==
  (NumberMode /\ K >= 1 /\ lines' # lines /\ Len(selected_lines) >= K) =>
    LET j == Index(r', lines_read') IN
    /\ ndraws' = ndraws + 1
    /\ j \in 0 .. lines_read' - 1
    /\ selected_lines' =
         IF j < K THEN Append(DeleteAt(selected_lines, j), lines'[Len(lines')])
         ELSE selected_lines

C10_Replacement == [][C10_Step]_vars

\* C4: a call with neither or both of fraction and number ends in a usage
\* error with no line read, sampled or written.
C4_ExactlyOne ==
  (pc # "call" /\ ((fraction = None) <=> (number = None))) =>
    /\ pc = "error"
    /\ mode = "none"
    /\ lines = <<>>
    /\ selected_lines = <<>>
    /\ out = <<>>

\* C5: with only fraction given, the run is in fraction mode with that
\* probability exactly when 0.0 <= fraction <= 1.0; otherwise it is a usage
\* error with nothing written, and never number mode.
C5_FractionRange ==
  (pc # "call" /\ fraction # None /\ number = None) =>
    IF 0 <= Scaled(fraction[1]) /\ Scaled(fraction[1]) <= Den
    THEN pc # "error" /\ mode = "fraction" /\ param = fraction
    ELSE pc = "error" /\ mode = "none" /\ lines = <<>> /\ out = <<>>

\* C6: with only number given, the run is in number mode exactly when the
\* count is >= 1; otherwise it is a usage error with no line read or written.
C6_CountPositive ==
  (pc # "call" /\ fraction = None /\ number # None) =>
    IF number[1] >= 1
    THEN pc # "error" /\ mode = "number" /\ param = Some(IntV(number[1]))
    ELSE pc = "error" /\ mode = "none" /\ lines = <<>> /\ out = <<>>

\* C7: in fraction mode each line read consumes exactly one draw and is
\* written at once exactly when its draw is below the probability;
\* probability 0 writes nothing and probability 1 writes every line.
C7_State ==
  (mode = "fraction" /\ param # None) =>
    /\ ndraws = Len(lines)
    /\ Increasing(out)
    /\ Scaled(param[1]) = 0 => out = <<>>
    /\ Scaled(param[1]) = Den => Idx(out) = [i \in 1 .. Len(lines) |-> i]

C7_Step ==
  (mode = "fraction" /\ lines' # lines) =>
    /\ Len(lines') = Len(lines) + 1
    /\ ndraws' = ndraws + 1
    /\ r' \in 0 .. Den - 1
    /\ Idx(out') = IF r' < Scaled(param[1]) THEN Append(Idx(out), Len(lines')) ELSE Idx(out)

C7_Bernoulli == [](C7_State) /\ [][C7_Step]_vars

\* A fraction-mode run that wrote the first and third of three lines.
C7_Witness ==
  /\ mode = "fraction"
  /\ 0 < Scaled(param[1]) /\ Scaled(param[1]) < Den
  /\ Len(lines) = 3
  /\ Idx(out) = <<1, 3>>

\* The state of the generator i draws after it was seeded with a.
RECURSIVE GenState(_, _)
GenState(a, i) == IF i = 0 THEN RngSeed(a).s ELSE RngStep(GenState(a, i - 1))

\* What a fraction-mode run seeded with a writes for the first n lines of ls.
RECURSIVE SeededFraction(_, _, _, _)
SeededFraction(a, p, ls, n) ==
  IF n = 0 THEN <<>>
  ELSE LET prev == SeededFraction(a, p, ls, n - 1) IN
       IF Includes(GenState(a, n), p) THEN Append(prev, Printed(ls[n])) ELSE prev

\* The buffer, and the draws consumed, of a number-mode run seeded with a
\* after the first n lines of ls.
RECURSIVE SeededNumber(_, _, _, _)
SeededNumber(a, k, ls, n) ==
  IF n = 0 THEN [buf |-> <<>>, nd |-> 0]
  ELSE LET prev == SeededNumber(a, k, ls, n - 1) IN
       IF Len(prev.buf) < k
       THEN [buf |-> Append(prev.buf, ls[n]), nd |-> prev.nd]
       ELSE LET j == Index(GenState(a, prev.nd + 1), n) IN
            [buf |-> IF Selects(j, k) THEN Replace(prev.buf, j, ls[n]) ELSE prev.buf,
             nd |-> prev.nd + 1]

\* C8: the generator is seeded at most once, and before the first draw; with
\* a seed given, the draws consumed and the lines written are a function of
\* the seed, the mode parameter and the input alone.
C8_Deterministic ==
  /\ seedCalls <= 1
  /\ (pc \in {"loop", "done"} \/ ndraws > 0) => seedCalls = 1
  /\ (seed # None /\ mode = "fraction") =>
       /\ out = SeededFraction(seed, param[1], lines, Len(lines))
       /\ ndraws = Len(lines)
       /\ ndraws > 0 => r = GenState(seed, ndraws)
  /\ (seed # None /\ mode = "number") =>
       LET e == SeededNumber(seed, K, lines, Len(lines)) IN
       /\ selected_lines = e.buf
       /\ ndraws = e.nd
       /\ ndraws > 0 => r = GenState(seed, ndraws)
       /\ out = IF pc = "done" THEN [i \in 1 .. Len(e.buf) |-> Printed(e.buf[i])] ELSE <<>>

\* A finished seeded number-mode run that drew twice and replaced a line.
C8_Witness ==
  /\ seed # None
  /\ mode = "number"
  /\ pc = "done"
  /\ ndraws >= 2
  /\ out # <<>>
  /\ out[1].idx # 1

\* C9: every line written is the selected input line without its trailing
\* line-ending characters, leading and interior characters unchanged.
C9_TrailingOnly ==
  \A i \in 1 .. Len(out) :
    /\ out[i].idx \in 1 .. Len(lines)
    /\ out[i].text = RStripEol(lines[out[i].idx].text)
====
